---------------------------- MODULE Spec2Model ----------------------------
(***************************************************************************)
(* Model of the creator-vault batch pipeline:                              *)
(*   reels.py          download_and_analyze_reels, analyze_video           *)
(*   script_reels.py   download_and_analyze_script_reels, analyze_script   *)
(*   reels_analyzer.py / script_analyzer.py   write_*_analysis_to_csv      *)
(*                                                                         *)
(* The orchestrator loop is modelled one step per statement group; the     *)
(* external collaborators (yt-dlp, the generation service, the file        *)
(* system) are nondeterministic inputs of the steps that call them.        *)
(***************************************************************************)
EXTENDS Integers, Sequences, FiniteSets, TLC

(* ------------------------------ bounds --------------------------------- *)
\* number of entries of the work list (reels_links.txt)
MaxLinks == 2
\* number of lines of one generation output
MaxLines == 2
\* number of times the pipeline is started on the same storage file
MaxRuns == 2
\* number of entries that pass the rate-limit step in a long run
MaxPasses == 12
\* number of characters of the field of a line that is varied
MaxFieldLen == 3

(* ------------------------- program constants --------------------------- *)
requests_per_minute == 10
time_window == 60

(* --------------------------- value domains ----------------------------- *)
\* the names yt-dlp can resolve a link to (the derived keys)
Filenames == {"a.mp4", "b.mp4"}
\* what the generation service may put in the first field of a script line
LlmNames == {"a.mp4", "llm.mp4"}
\* the two pipelines
Variants == {"reels", "script"}
\* a line of generation output, by what the line loop does with it
LineKinds == {"blank", "header", "ok", "bad"}

VARIABLES
    variant,              \* which pipeline runs: reels.py or script_reels.py
    resolved,             \* yt-dlp --get-filename, per work-list entry
    master_csv,           \* rows of master_analysis.csv on disk
    buffer,               \* rows written to the open file object, not yet on disk
    run,                  \* number of the current process run
    reports,              \* the final report of every completed run
    pc,                   \* position of the process
    i,                    \* index of the current entry of links
    analyzed_videos,      \* the in-memory Ledger
    failed_links,
    all_analysis_results,
    request_timestamps,
    now,                  \* time.time() since the start of the run, in ticks
    video_filename,
    new_results,
    parse_error,
    written,              \* loop index of `for result in analysis_results`
    trace,                \* external calls and log lines of the current entry
    outcome,              \* per entry: how its pass through the loop ended
    pushed,               \* long run: the timestamps the rate-limit step pushed
    called,               \* long run: the times of the generation-service calls
    origin,               \* one line: the fields the line was written from
    raw_line,             \* one line: a line of normalized_text
    stage,                \* one line: what has been applied to the line
    out,                  \* one line: the result of what was applied
    video_file,           \* status poll: video_file.state.name
    processing_start_time,
    current_time          \* rate-limit step: the local current_time

\* what only the specifications of single components keep track of
loops == <<video_file, processing_start_time, current_time>>

aside == <<pushed, called, origin, raw_line, stage, out, loops>>

vars == <<variant, resolved, master_csv, buffer, run, reports, pc, i,
          analyzed_videos, failed_links, all_analysis_results,
          request_timestamps, now, video_filename, new_results, parse_error,
          written, trace, outcome, aside>>

\* the work list: one reference per non-empty line, here the entry numbers
links == [n \in 1..MaxLinks |-> n]


(* ------------------------- records and rows ---------------------------- *)
\* VisualSegmentAnalysis / ScriptAnalysis: the key field, and the number of
\* the record among those of its item (standing for the other text fields)
Record(name, n) == [video_filename |-> name, segment |-> n]

\* the row DictWriter.writeheader() writes: the field names themselves
HeaderRow == [video_filename |-> "video_filename", segment |-> 0]

\* csv.DictReader over the storage file: the first row names the columns,
\* every following row is a data row
DictReader(file) == IF file = <<>> THEN <<>> ELSE Tail(file)

\* the video_filename column of the rows of a file
LoadKeys(file) ==
    {DictReader(file)[k].video_filename : k \in 1..Len(DictReader(file))}

(* ----------------------- generation output lines ----------------------- *)
\* a line: what the line loop makes of it, and the text of its first field
Line(kind, name) == [kind |-> kind, name |-> name]

LinesOf(v) ==
    IF v = "reels" THEN {Line(k, "seg") : k \in LineKinds}
    ELSE {Line(k, "-") : k \in LineKinds \ {"ok"}}
         \cup {Line("ok", nm) : nm \in LlmNames}

SeqsUpTo(S, n) == UNION {[1..m -> S] : m \in 0..n}

Texts(v) == SeqsUpTo(LinesOf(v), MaxLines)

\* mutant: the key field is taken from the line's first field in analyze_video too
KeyField_FromLine(v, filename, line) == line.name

\* the key field of the record built from one parsed line: analyze_video
\* passes the local filename, analyze_script passes fields[0]
KeyField(v, filename, line) == IF v = "reels" THEN filename ELSE line.name

\* the line loop of analyze_video / analyze_script from line n on: the
\* records built, the parse-error flag, and the [PARSE ERROR] lines printed
RECURSIVE ParseFrom(_, _, _, _, _)
ParseFrom(v, filename, text, n, acc) ==
    IF n > Len(text) THEN acc
    ELSE LET line == text[n] IN
         IF line.kind = "blank" THEN ParseFrom(v, filename, text, n + 1, acc)
         ELSE IF line.kind = "header"
         THEN ParseFrom(v, filename, text, n + 1, acc)
         ELSE IF line.kind = "ok"
         THEN ParseFrom(v, filename, text, n + 1,
                  [acc EXCEPT !.results =
                      Append(@, Record(KeyField(v, filename, line),
                                       Len(@) + 1))])
         ELSE ParseFrom(v, filename, text, n + 1,
                  [acc EXCEPT !.parse_error = TRUE,
                              !.log = Append(@, "[PARSE ERROR]")])

ParseLines(v, filename, text) ==
    ParseFrom(v, filename, text, 1,
              [results |-> <<>>, parse_error |-> FALSE, log |-> <<>>])

(* ------------------- analyze_video / analyze_script -------------------- *)
\* what the generation service and the transcript folder do in one call
Env(u, s, t, g, x, d) ==
    [upload |-> u, state |-> s, transcript |-> t, generate |-> g,
     text |-> x, delete |-> d]

Envs(v) ==
    {Env("raise", "-", "-", "-", <<>>, "-")}
    \cup {Env("ok", s, "-", "-", <<>>, "-") : s \in {"FAILED", "TIMEOUT"}}
    \cup {Env("ok", "ACTIVE", "raise", "-", <<>>, "-")}
    \cup {Env("ok", "ACTIVE", "empty", "-", <<>>, d) : d \in {"ok", "raise"}}
    \cup {Env("ok", "ACTIVE", t, "raise", <<>>, "-") : t \in {"file", "text"}}
    \cup {Env("ok", "ACTIVE", t, "ok", x, d) :
             t \in {"file", "text"}, x \in Texts(v), d \in {"ok", "raise"}}

Returned(results, parse_err, calls, kind) ==
    [results |-> results, parse_error |-> parse_err, calls |-> calls,
     kind |-> kind]

\* the whole function: the returned pair, the service calls and log lines
\* it made ("processing" is printed once upload_file has returned the
\* handle), and what went wrong in it (for the accounting of outcomes)
AnalyzeVideo(v, filename, env) ==
    IF env.upload = "raise"
    THEN Returned(<<>>, TRUE, <<"upload">>, "generation-failed")
    ELSE IF env.state = "TIMEOUT"
    THEN Returned(<<>>, TRUE, <<"upload", "processing", "get_file">>,
                  "generation-timeout")
    ELSE IF env.state = "FAILED"
    THEN Returned(<<>>, TRUE, <<"upload", "processing">>, "generation-failed")
    ELSE IF env.transcript = "raise"
    THEN Returned(<<>>, TRUE, <<"upload", "processing", "transcribe">>,
                  "generation-failed")
    ELSE IF env.transcript = "empty"
    THEN IF env.delete = "raise"
         THEN Returned(<<>>, TRUE,
                       <<"upload", "processing", "transcribe", "delete">>,
                       "delete-failed")
         ELSE Returned(<<>>, FALSE,
                       <<"upload", "processing", "transcribe", "delete">>,
                       "no-transcript")
    ELSE LET pre == IF env.transcript = "file"
                    THEN <<"upload", "processing">>
                    ELSE <<"upload", "processing", "transcribe">>
         IN IF env.generate = "raise"
            THEN Returned(<<>>, TRUE, pre \o <<"generate">>,
                          "generation-failed")
            ELSE LET parsed == ParseLines(v, filename, env.text)
                     calls == pre \o <<"generate">> \o parsed.log
                                  \o <<"delete">>
                 IN IF env.delete = "raise"
                    THEN Returned(<<>>, TRUE, calls, "delete-failed")
                    ELSE Returned(parsed.results, parsed.parse_error, calls,
                                  IF parsed.parse_error THEN "parse-error"
                                  ELSE IF parsed.results = <<>>
                                  THEN "no-records" ELSE "parsed")

(* --------------------------- rate limiter ------------------------------ *)
\* mutant: the rate-limit step pushes the timestamp twice
Acquire_PushesTwice(queue, t) ==
    [queue |-> Append(Append(queue, t), t), now |-> t]

\* mutant: a full queue drops its oldest timestamp without waiting
Acquire_NoWait(queue, t) ==
    IF Len(queue) >= requests_per_minute
    THEN [queue |-> Append(Tail(queue), t), now |-> t]
    ELSE [queue |-> Append(queue, t), now |-> t]

\* the while loop of the rate-limit step and the push that follows it: the
\* queue after the step, and the time at which the timestamp is pushed
RECURSIVE Acquire(_, _)
Acquire(queue, t) ==
    IF Len(queue) >= requests_per_minute
    THEN IF t - Head(queue) > time_window
         THEN Acquire(Tail(queue), t)
         ELSE Acquire(queue, Head(queue) + time_window + 1)
    ELSE [queue |-> Append(queue, t), now |-> t]

(* ---------------------------- orchestrator ----------------------------- *)
Entries == 1..MaxLinks

\* positions at which the process is running
Running == {"resolve", "gate", "fetch", "analyze", "open", "rows", "report"}

Init ==
    /\ variant \in Variants
    /\ resolved \in [Entries -> Filenames]
    /\ resolved[1] = "a.mp4"
    /\ master_csv = <<>>
    /\ buffer = <<>>
    /\ run = 0
    /\ reports = <<>>
    /\ pc = "start"
    /\ i = 1
    /\ analyzed_videos = {}
    /\ failed_links = <<>>
    /\ all_analysis_results = <<>>
    /\ request_timestamps = <<>>
    /\ now = 0
    /\ video_filename = "-"
    /\ new_results = <<>>
    /\ parse_error = FALSE
    /\ written = 0
    /\ trace = <<>>
    /\ outcome = [n \in Entries |-> "pending"]
    /\ pushed = <<>>
    /\ called = <<>>
    /\ origin = <<>>
    /\ raw_line = <<>>
    /\ stage = "-"
    /\ out = <<>>
    /\ video_file = "-"
    /\ processing_start_time = 0
    /\ current_time = 0

\* the for loop moves on to the next link, or ends
Continue ==
    /\ i' = i + 1
    /\ pc' = IF i + 1 > Len(links) THEN "report" ELSE "resolve"

\* the current entry's pass ends
Ends(how) ==
    /\ outcome' = [outcome EXCEPT ![i] = how]
    /\ Continue

\* mutant: the except clause records the link and leaves the loop
Failed_LeavesLoop(kind) ==
    /\ failed_links' = Append(failed_links, links[i])
    /\ outcome' = [outcome EXCEPT ![i] = kind]
    /\ i' = i
    /\ pc' = "report"

\* mutant: the except clause records the link twice
Failed_Twice(kind) ==
    /\ failed_links' = Append(Append(failed_links, links[i]), links[i])
    /\ Ends(kind)

\* failed_links.append(link) in an except clause, and the for loop moves on
Failed(kind) ==
    /\ failed_links' = Append(failed_links, links[i])
    /\ Ends(kind)

\* mutant: records that parsed are written although another line failed
Disposition_Salvages(results, parse_err) ==
    IF results # <<>> THEN "write"
    ELSE IF parse_err THEN "fail" ELSE "none"

\* the branch on the pair analyze_video returned: write the records, add
\* the link to failed_links, or neither
Disposition(results, parse_err) ==
    IF results # <<>>
    THEN IF parse_err THEN "fail" ELSE "write"
    ELSE IF parse_err THEN "fail" ELSE "none"

\* mutant: the Ledger check is missing, no entry is ever skipped
AlreadyAnalyzed_Never(name, ledger) == FALSE

\* the Ledger check of the loop
AlreadyAnalyzed(name, ledger) == name \in ledger

\* the process starts: the setup of download_and_analyze_reels up to the loop
LoadLedger ==
    /\ pc \in {"start", "done", "dead"}
    /\ run < MaxRuns
    /\ run' = run + 1
    /\ all_analysis_results' = DictReader(master_csv)
    /\ analyzed_videos' = LoadKeys(master_csv)
    /\ failed_links' = <<>>
    /\ request_timestamps' = <<>>
    /\ now' = 0
    /\ i' = 1
    /\ pc' = IF Len(links) = 0 THEN "report" ELSE "resolve"
    /\ video_filename' = "-"
    /\ new_results' = <<>>
    /\ parse_error' = FALSE
    /\ written' = 0
    /\ buffer' = <<>>
    /\ trace' = <<>>
    /\ outcome' = [n \in Entries |-> "pending"]
    /\ UNCHANGED <<variant, resolved, master_csv, reports>>
    /\ UNCHANGED aside

\* yt-dlp --get-filename, and the Ledger check. The locals of the previous
\* pass are dead here (each is assigned before it is read again)
ResolveName ==
    /\ pc = "resolve"
    /\ trace' = <<"get-filename">>
    /\ now' = now + 1
    /\ new_results' = <<>>
    /\ parse_error' = FALSE
    /\ written' = 0
    /\ \E ok \in BOOLEAN :
        IF ~ok
        THEN /\ Failed("fetch-metadata-error")
             /\ UNCHANGED video_filename
        ELSE /\ video_filename' = resolved[i]
             /\ IF AlreadyAnalyzed(resolved[i], analyzed_videos)
                THEN Ends("skipped")
                ELSE /\ pc' = "gate"
                     /\ UNCHANGED <<i, outcome>>
             /\ UNCHANGED failed_links
    /\ UNCHANGED <<variant, resolved, master_csv, buffer, run, reports,
                   analyzed_videos, all_analysis_results, request_timestamps>>
    /\ UNCHANGED aside

\* the rate-limit step
RateGate ==
    /\ pc = "gate"
    /\ LET a == Acquire(request_timestamps, now)
       IN /\ request_timestamps' = a.queue
          /\ now' = a.now
    /\ trace' = Append(trace, "acquire")
    /\ pc' = "fetch"
    /\ UNCHANGED <<variant, resolved, master_csv, buffer, run, reports, i,
                   analyzed_videos, failed_links, all_analysis_results,
                   video_filename, new_results, parse_error, written,
                   outcome>>
    /\ UNCHANGED aside

\* the download, unless the video file is already in the reels folder
Fetch ==
    /\ pc = "fetch"
    /\ \E exists \in BOOLEAN, ok \in BOOLEAN :
        IF exists
        THEN /\ ok
             /\ pc' = "analyze"
             /\ trace' = Append(trace, "already-exists")
             /\ UNCHANGED <<i, failed_links, outcome>>
        ELSE /\ trace' = Append(trace, "download")
             /\ IF ok
                THEN /\ pc' = "analyze"
                     /\ UNCHANGED <<i, failed_links, outcome>>
                ELSE Failed("fetch-error")
    /\ UNCHANGED <<variant, resolved, master_csv, buffer, run, reports,
                   analyzed_videos, all_analysis_results, request_timestamps,
                   now, video_filename, new_results, parse_error, written>>
    /\ UNCHANGED aside

\* the call of analyze_video / analyze_script and the branch on its result
Analyze ==
    /\ pc = "analyze"
    /\ \E env \in Envs(variant) :
        LET r == AnalyzeVideo(variant, video_filename, env)
            d == Disposition(r.results, r.parse_error)
        IN
        /\ new_results' = r.results
        /\ parse_error' = r.parse_error
        /\ trace' = trace \o <<"analyze">> \o r.calls
                          \o (IF d = "write" THEN <<"append">> ELSE <<>>)
        /\ failed_links' = IF d = "fail"
                           THEN Append(failed_links, links[i])
                           ELSE failed_links
        /\ all_analysis_results' = IF d = "write"
                                   THEN all_analysis_results \o r.results
                                   ELSE all_analysis_results
        /\ IF d = "write"
           THEN /\ pc' = "open"
                /\ UNCHANGED <<i, outcome>>
           ELSE Ends(r.kind)
    /\ UNCHANGED <<variant, resolved, master_csv, buffer, run, reports,
                   analyzed_videos, request_timestamps, now, video_filename,
                   written>>
    /\ UNCHANGED aside

\* mutant: every append writes the header row
write_header_Always(file) == TRUE

\* `write_header = not file_exists or os.stat(csv_path).st_size == 0`
write_header(file) == file = <<>>

\* write_analysis_to_csv up to the row loop: open for append, header if the
\* file is absent or empty; an exception of open is caught and printed
WriteOpen ==
    /\ pc = "open"
    /\ \E ok \in BOOLEAN :
        IF ok
        THEN /\ buffer' = IF write_header(master_csv) THEN <<HeaderRow>>
                           ELSE <<>>
             /\ written' = 0
             /\ pc' = "rows"
             /\ UNCHANGED <<i, trace, outcome>>
        ELSE /\ trace' = Append(trace, "append_failed")
             /\ Ends("storage-error")
             /\ UNCHANGED <<buffer, written>>
    /\ UNCHANGED <<variant, resolved, master_csv, run, reports,
                   analyzed_videos, failed_links, all_analysis_results,
                   request_timestamps, now, video_filename, new_results,
                   parse_error>>
    /\ UNCHANGED aside

\* writer.writerow(row) for the next result
WriteRow ==
    /\ pc = "rows"
    /\ written < Len(new_results)
    /\ buffer' = Append(buffer, new_results[written + 1])
    /\ written' = written + 1
    /\ UNCHANGED <<variant, resolved, master_csv, run, reports, pc, i,
                   analyzed_videos, failed_links, all_analysis_results,
                   request_timestamps, now, video_filename, new_results,
                   parse_error, trace, outcome>>
    /\ UNCHANGED aside

\* the file object's buffer fills and is written out
Flush ==
    /\ pc = "rows"
    /\ buffer # <<>>
    /\ master_csv' = master_csv \o buffer
    /\ buffer' = <<>>
    /\ UNCHANGED <<variant, resolved, run, reports, pc, i, analyzed_videos,
                   failed_links, all_analysis_results, request_timestamps,
                   now, video_filename, new_results, parse_error, written,
                   trace, outcome>>
    /\ UNCHANGED aside

\* writerow raises: the with block closes the file, which writes out what
\* was buffered, and the except clause prints and returns
WriteFail ==
    /\ pc = "rows"
    /\ written < Len(new_results)
    /\ master_csv' = master_csv \o buffer
    /\ buffer' = <<>>
    /\ trace' = Append(trace, "append_failed")
    /\ Ends("storage-error")
    /\ UNCHANGED <<variant, resolved, run, reports, analyzed_videos,
                   failed_links, all_analysis_results, request_timestamps,
                   now, video_filename, new_results, parse_error, written>>
    /\ UNCHANGED aside

\* the row loop is over: the with block closes the file
WriteClose ==
    /\ pc = "rows"
    /\ written = Len(new_results)
    /\ master_csv' = master_csv \o buffer
    /\ buffer' = <<>>
    /\ trace' = Append(trace, "appended")
    /\ Ends("persisted")
    /\ UNCHANGED <<variant, resolved, run, reports, analyzed_videos,
                   failed_links, all_analysis_results, request_timestamps,
                   now, video_filename, new_results, parse_error, written>>
    /\ UNCHANGED aside

\* after the loop: the failed URLs are printed
Report ==
    /\ pc = "report"
    /\ reports' = Append(reports, [run |-> run, failed |-> failed_links])
    /\ pc' = "done"
    /\ UNCHANGED <<variant, resolved, master_csv, buffer, run, i,
                   analyzed_videos, failed_links, all_analysis_results,
                   request_timestamps, now, video_filename, new_results,
                   parse_error, written, trace, outcome>>
    /\ UNCHANGED aside

\* the process is terminated: only what is on disk remains
Crash ==
    /\ pc \in Running
    /\ pc' = "dead"
    /\ buffer' = <<>>
    /\ i' = 1
    /\ analyzed_videos' = {}
    /\ failed_links' = <<>>
    /\ all_analysis_results' = <<>>
    /\ request_timestamps' = <<>>
    /\ now' = 0
    /\ video_filename' = "-"
    /\ new_results' = <<>>
    /\ parse_error' = FALSE
    /\ written' = 0
    /\ trace' = <<>>
    /\ outcome' = [n \in Entries |-> "pending"]
    /\ UNCHANGED <<variant, resolved, master_csv, run, reports>>
    /\ UNCHANGED aside

Next ==
    \/ LoadLedger
    \/ ResolveName
    \/ RateGate
    \/ Fetch
    \/ Analyze
    \/ WriteOpen
    \/ WriteRow
    \/ Flush
    \/ WriteFail
    \/ WriteClose
    \/ Report
    \/ Crash

Spec == Init /\ [][Next]_vars

\* one run of the pipeline, left to finish
RunNext ==
    \/ (pc = "start" /\ LoadLedger)
    \/ ResolveName
    \/ RateGate
    \/ Fetch
    \/ Analyze
    \/ WriteOpen
    \/ WriteRow
    \/ Flush
    \/ WriteFail
    \/ WriteClose
    \/ Report

\* the single thread of control keeps taking steps until the report is out
FairSpec == Init /\ [][RunNext]_vars /\ WF_vars(RunNext)

(* ------------------- the rate limiter in a long run ------------------- *)
\* seconds from one entry's push to the next entry's rate-limit step: the
\* entries come back-to-back, or after more than a window
Elapsed == {0, time_window + 1}

\* the last n elements of a sequence
Last(seq, n) ==
    IF Len(seq) <= n THEN seq ELSE SubSeq(seq, Len(seq) - n + 1, Len(seq))

\* the upload_file and generate_content calls among the calls of an analysis
UploadAndGenerate(calls) ==
    SelectSeq(calls, LAMBDA c : c \in {"upload", "transcribe", "generate"})

\* the generation service in a run in which every analysis goes through:
\* the transcript is in the transcripts folder already, or is generated
SteadyEnvs == {Env("ok", "ACTIVE", t, "ok", <<>>, "ok") : t \in {"file", "text"}}

\* a run over a long work list of entries that are not in the Ledger
RateInit ==
    /\ variant \in Variants
    /\ resolved = [n \in Entries |-> "a.mp4"]
    /\ master_csv = <<>>
    /\ buffer = <<>>
    /\ run = 1
    /\ reports = <<>>
    /\ pc = "gate"
    /\ i = 1
    /\ analyzed_videos = {}
    /\ failed_links = <<>>
    /\ all_analysis_results = <<>>
    /\ request_timestamps = <<>>
    /\ now = 0
    /\ video_filename = "-"
    /\ new_results = <<>>
    /\ parse_error = FALSE
    /\ written = 0
    /\ trace = <<>>
    /\ outcome = [n \in Entries |-> "pending"]
    /\ pushed = <<>>
    /\ called = <<>>
    /\ origin = <<>>
    /\ raw_line = <<>>
    /\ stage = "-"
    /\ out = <<>>
    /\ video_file = "-"
    /\ processing_start_time = 0
    /\ current_time = 0

\* the rate-limit step of the next entry, d seconds after the last push;
\* of the pushed timestamps the last requests_per_minute + 1 are kept
RatePass ==
    /\ pc = "gate"
    /\ i <= MaxPasses
    /\ \E d \in Elapsed :
        LET a == Acquire(request_timestamps, now + d)
        IN /\ request_timestamps' = a.queue
           /\ now' = a.now
           /\ pushed' = Last(Append(pushed, a.now), requests_per_minute + 1)
           /\ trace' = IF a.now > now + d
                       THEN <<"Rate limit reached">> ELSE <<>>
    /\ pc' = "analyze"
    /\ UNCHANGED <<variant, resolved, master_csv, buffer, run, reports, i,
                   analyzed_videos, failed_links, all_analysis_results,
                   video_filename, new_results, parse_error, written,
                   outcome, called, origin, raw_line, stage, out, loops>>

\* the analysis of that entry: its calls into the generation service
RateCalls ==
    /\ pc = "analyze"
    /\ \E env \in SteadyEnvs :
        LET r == AnalyzeVideo(variant, "a.mp4", env)
            n == Len(UploadAndGenerate(r.calls))
        IN called' = Last(called \o [k \in 1..n |-> now],
                          requests_per_minute + 1)
    /\ i' = i + 1
    /\ pc' = "gate"
    /\ UNCHANGED <<variant, resolved, master_csv, buffer, run, reports,
                   analyzed_videos, failed_links, all_analysis_results,
                   request_timestamps, now, video_filename, new_results,
                   parse_error, written, trace, outcome, pushed, origin,
                   raw_line, stage, out, loops>>

RateNext ==
    \/ RatePass
    \/ RateCalls

RateSpec == RateInit /\ [][RateNext]_vars

(* ------------------- one line of generation output -------------------- *)
\* A line is a sequence of characters. The comma, the straight quote and
\* the blank are characters; a word stands for a run of other characters.
COMMA == ","
QUOTE == "\""
SPACE == " "

\* words that are decimal numbers, and their values
IntOf == ("1" :> 1) @@ ("5" :> 5) @@ ("7" :> 7)

\* str.isdigit() of a string
isdigit(str) == Len(str) = 1 /\ str[1] \in DOMAIN IntOf

\* the curly double quotes U+201C and U+201D
LDQUO == "ldquo"

RDQUO == "rdquo"

\* str.replace(old, new) for one character
replace(str, old, new) ==
    [k \in 1..Len(str) |-> IF str[k] = old THEN new ELSE str[k]]

\* `analysis_response.text.replace('"', '"').replace('"', '"')`: in the
\* source both arguments of both calls are the straight quote U+0022
normalized_text(text) == replace(replace(text, QUOTE, QUOTE), QUOTE, QUOTE)

\* str.strip()
RECURSIVE strip(_)
strip(str) ==
    IF str = <<>> THEN str
    ELSE IF Head(str) = SPACE THEN strip(Tail(str))
    ELSE IF str[Len(str)] = SPACE THEN strip(SubSeq(str, 1, Len(str) - 1))
    ELSE str

startswith(str, c) == str # <<>> /\ Head(str) = c

endswith(str, c) == str # <<>> /\ str[Len(str)] = c

\* ','.join(parts)
RECURSIVE join(_)
join(parts) ==
    IF parts = <<>> THEN <<>>
    ELSE IF Len(parts) = 1 THEN parts[1]
    ELSE parts[1] \o <<COMMA>> \o join(Tail(parts))

\* line.split(','), from character k on with the part begun in cur
RECURSIVE split(_, _, _)
split(line, k, cur) ==
    IF k > Len(line) THEN <<cur>>
    ELSE IF line[k] = COMMA THEN <<cur>> \o split(line, k + 1, <<>>)
    ELSE split(line, k + 1, Append(cur, line[k]))

\* a function's result: a list of fields, or None
None == [ok |-> FALSE, parts |-> <<>>]

Fields(parts) == [ok |-> TRUE, parts |-> parts]

\* mutant: any number of parts is returned as the fields of a line
IfArity_Any(parts, n) == Fields(parts)

\* `return parts if len(parts) == 9 else None`
IfArity(parts, n) == IF Len(parts) = n THEN Fields(parts) ELSE None

\* the character loop of fix_csv_line / fix_script_csv_line from chars[k] on
RECURSIVE Tokenize(_, _, _, _, _)
Tokenize(chars, k, parts, current_part, in_quotes) ==
    IF k > Len(chars)
    THEN IF current_part # <<>> THEN Append(parts, current_part) ELSE parts
    ELSE LET char == chars[k] IN
         IF char = QUOTE
         THEN IF k + 1 <= Len(chars) /\ chars[k + 1] = QUOTE
              THEN Tokenize(chars, k + 2, parts,
                            current_part \o <<QUOTE, QUOTE>>, in_quotes)
              ELSE Tokenize(chars, k + 1, parts, Append(current_part, char),
                            ~in_quotes)
         ELSE IF char = COMMA /\ ~in_quotes
         THEN Tokenize(chars, k + 1, Append(parts, current_part), <<>>,
                       in_quotes)
         ELSE Tokenize(chars, k + 1, parts, Append(current_part, char),
                       in_quotes)

\* mutant: the inner while adds the next part only
Combine_NextOnly(parts, j, combined) ==
    IF j > Len(parts) THEN [combined |-> combined, j |-> j]
    ELSE [combined |-> combined \o <<COMMA>> \o parts[j], j |-> j]

\* the inner while of the repair: parts from j on are added to combined up
\* to and including the first one that ends with a quote
RECURSIVE Combine(_, _, _)
Combine(parts, j, combined) ==
    IF j > Len(parts) THEN [combined |-> combined, j |-> j]
    ELSE LET more == combined \o <<COMMA>> \o parts[j] IN
         IF endswith(strip(parts[j]), QUOTE)
         THEN [combined |-> more, j |-> j]
         ELSE Combine(parts, j + 1, more)

\* the repair of fix_csv_line: the outer while, from parts[k] on
RECURSIVE FixParts(_, _, _)
FixParts(parts, k, fixed_parts) ==
    IF k > Len(parts) THEN fixed_parts
    ELSE LET part == strip(parts[k]) IN
         IF startswith(part, QUOTE) /\ ~endswith(part, QUOTE)
         THEN LET c == Combine(parts, k + 1, part)
              IN FixParts(parts, c.j + 1, Append(fixed_parts, c.combined))
         ELSE FixParts(parts, k + 1, Append(fixed_parts, part))

\* fix_csv_line (n = 9) and fix_script_csv_line (n = 13)
FixLine(line, n) ==
    LET parts == Tokenize(line, 1, <<>>, <<>>, FALSE)
    IN IF Len(parts) # n
       THEN IfArity(FixParts(parts, 1, <<>>), n)
       ELSE IfArity(parts, n)

fix_csv_line(line) == FixLine(line, 9)

fix_script_csv_line(line) == FixLine(line, 13)

(* --------------------------- letter case ------------------------------- *)
\* the field names of VisualSegmentAnalysis and of ScriptAnalysis, which
\* DictWriter.writeheader() writes as the column-name row
reels_fieldnames ==
    <<"video_filename", "segment_id", "start_time", "end_time",
      "shot_type", "spoken_text", "visual_description", "inferred_purpose",
      "effectiveness_rating", "effectiveness_justification">>

script_fieldnames ==
    <<"video_filename", "overall_message", "script_purpose", "tonality",
      "emotional_arc", "hook_effectiveness", "narrative_flow",
      "transition_quality", "call_to_action", "recurring_patterns",
      "line_by_line_analysis", "effectiveness_score",
      "improvement_suggestions">>

\* the field names as ANALYSIS_PROMPT and SCRIPT_ANALYSIS_PROMPT spell them
reels_prompt_fields ==
    <<"Video_Segment_ID", "Visual_Start_Timestamp", "Visual_End_Timestamp",
      "Shot_Type", "Spoken_Line_Phrase", "Visual_Description",
      "Inferred_Purpose_Connection", "Effectiveness_Rating",
      "Effectiveness_Justification">>

script_prompt_fields ==
    <<"Video_Filename", "Overall_Message", "Script_Purpose", "Tonality",
      "Emotional_Arc", "Hook_Effectiveness", "Narrative_Flow",
      "Transition_Quality", "Call_to_Action", "Recurring_Patterns",
      "Line_by_Line_Analysis", "Effectiveness_Score",
      "Improvement_Suggestions">>

\* str.lower() of the words that have capital letters
LowerOf ==
    ("Video_Segment_ID" :> "video_segment_id") @@
    ("Visual_Start_Timestamp" :> "visual_start_timestamp") @@
    ("Visual_End_Timestamp" :> "visual_end_timestamp") @@
    ("Shot_Type" :> "shot_type") @@
    ("Spoken_Line_Phrase" :> "spoken_line_phrase") @@
    ("Visual_Description" :> "visual_description") @@
    ("Inferred_Purpose_Connection" :> "inferred_purpose_connection") @@
    ("Effectiveness_Rating" :> "effectiveness_rating") @@
    ("Effectiveness_Justification" :> "effectiveness_justification") @@
    ("Video_Filename" :> "video_filename") @@
    ("Overall_Message" :> "overall_message") @@
    ("Script_Purpose" :> "script_purpose") @@
    ("Tonality" :> "tonality") @@
    ("Emotional_Arc" :> "emotional_arc") @@
    ("Hook_Effectiveness" :> "hook_effectiveness") @@
    ("Narrative_Flow" :> "narrative_flow") @@
    ("Transition_Quality" :> "transition_quality") @@
    ("Call_to_Action" :> "call_to_action") @@
    ("Recurring_Patterns" :> "recurring_patterns") @@
    ("Line_by_Line_Analysis" :> "line_by_line_analysis") @@
    ("Effectiveness_Score" :> "effectiveness_score") @@
    ("Improvement_Suggestions" :> "improvement_suggestions") @@
    ("Purpose" :> "purpose") @@
    ("Serves" :> "serves") @@
    ("B-roll" :> "b-roll") @@
    ("VIDEO_FILENAME" :> "video_filename") @@
    ("SEGMENT_ID" :> "segment_id") @@
    ("START_TIME" :> "start_time") @@
    ("END_TIME" :> "end_time") @@
    ("SHOT_TYPE" :> "shot_type") @@
    ("SPOKEN_TEXT" :> "spoken_text") @@
    ("VISUAL_DESCRIPTION" :> "visual_description") @@
    ("INFERRED_PURPOSE" :> "inferred_purpose") @@
    ("EFFECTIVENESS_RATING" :> "effectiveness_rating") @@
    ("EFFECTIVENESS_JUSTIFICATION" :> "effectiveness_justification") @@
    ("OVERALL_MESSAGE" :> "overall_message") @@
    ("SCRIPT_PURPOSE" :> "script_purpose") @@
    ("TONALITY" :> "tonality") @@
    ("EMOTIONAL_ARC" :> "emotional_arc") @@
    ("HOOK_EFFECTIVENESS" :> "hook_effectiveness") @@
    ("NARRATIVE_FLOW" :> "narrative_flow") @@
    ("TRANSITION_QUALITY" :> "transition_quality") @@
    ("CALL_TO_ACTION" :> "call_to_action") @@
    ("RECURRING_PATTERNS" :> "recurring_patterns") @@
    ("LINE_BY_LINE_ANALYSIS" :> "line_by_line_analysis") @@
    ("EFFECTIVENESS_SCORE" :> "effectiveness_score") @@
    ("IMPROVEMENT_SUGGESTIONS" :> "improvement_suggestions")

\* str.upper() of the field names
UpperOf ==
    ("video_filename" :> "VIDEO_FILENAME") @@
    ("segment_id" :> "SEGMENT_ID") @@
    ("start_time" :> "START_TIME") @@
    ("end_time" :> "END_TIME") @@
    ("shot_type" :> "SHOT_TYPE") @@
    ("spoken_text" :> "SPOKEN_TEXT") @@
    ("visual_description" :> "VISUAL_DESCRIPTION") @@
    ("inferred_purpose" :> "INFERRED_PURPOSE") @@
    ("effectiveness_rating" :> "EFFECTIVENESS_RATING") @@
    ("effectiveness_justification" :> "EFFECTIVENESS_JUSTIFICATION") @@
    ("overall_message" :> "OVERALL_MESSAGE") @@
    ("script_purpose" :> "SCRIPT_PURPOSE") @@
    ("tonality" :> "TONALITY") @@
    ("emotional_arc" :> "EMOTIONAL_ARC") @@
    ("hook_effectiveness" :> "HOOK_EFFECTIVENESS") @@
    ("narrative_flow" :> "NARRATIVE_FLOW") @@
    ("transition_quality" :> "TRANSITION_QUALITY") @@
    ("call_to_action" :> "CALL_TO_ACTION") @@
    ("recurring_patterns" :> "RECURRING_PATTERNS") @@
    ("line_by_line_analysis" :> "LINE_BY_LINE_ANALYSIS") @@
    ("effectiveness_score" :> "EFFECTIVENESS_SCORE") @@
    ("improvement_suggestions" :> "IMPROVEMENT_SUGGESTIONS")

\* str.lower() and str.upper() of a string
lower(str) ==
    [k \in 1..Len(str) |->
        IF str[k] \in DOMAIN LowerOf THEN LowerOf[str[k]] ELSE str[k]]

upper(str) ==
    [k \in 1..Len(str) |->
        IF str[k] \in DOMAIN UpperOf THEN UpperOf[str[k]] ELSE str[k]]

\* the lower-case words that have the given word inside them
WordsWith ==
    ("segment_id" :> {"segment_id", "video_segment_id"}) @@
    ("video_segment_id" :> {"video_segment_id"}) @@
    ("video_filename" :> {"video_filename"}) @@
    ("overall_message" :> {"overall_message"})

\* `word in str` for a word without comma, quote or blank
HasWord(word, str) == \E k \in 1..Len(str) : str[k] \in WordsWith[word]

\* `'"word"' in str`: the word between two quotes
HasQuoted(word, str) ==
    \E k \in 1..Len(str) - 2 :
        str[k] = QUOTE /\ str[k + 1] = word /\ str[k + 2] = QUOTE

(* ---------------------- the body of the line loop ---------------------- *)
\* the number of fields of a line of each pipeline
Arity(v) == IF v = "reels" THEN 9 ELSE 13

\* mutant: no line is taken for a header row
Headers_None(v) == {}

\* the words whose presence makes the loop skip a line as a header row
Headers(v) ==
    IF v = "reels" THEN {"segment_id", "video_segment_id"}
    ELSE {"video_filename", "overall_message"}

\* `any(header in line.lower() for header in (...))`
IsHeader(v, line) == \E header \in Headers(v) : HasWord(header, lower(line))

\* the index at which a `for ... if ...: break` loop stops: the least of
\* the indices that pass the test, or 0 if none does
First(hits) ==
    IF hits = {} THEN 0 ELSE CHOOSE k \in hits : \A m \in hits : k <= m

\* `part.strip().isdigit() and 1 <= int(part.strip()) <= 5`
IsRating(part) ==
    isdigit(strip(part)) /\ IntOf[strip(part)[1]] \in 1..5

\* `'"purpose"' in parts[i].lower() or '"serves"' in parts[i].lower()`
IsPurpose(part) ==
    HasQuoted("purpose", lower(part)) \/ HasQuoted("serves", lower(part))

\* one leading and then one trailing quote are taken off
StripQuotes(str) ==
    LET rest == IF startswith(str, QUOTE) THEN Tail(str) ELSE str
    IN IF endswith(rest, QUOTE) THEN SubSeq(rest, 1, Len(rest) - 1) ELSE rest

\* the fallback of analyze_video
extract_fields_pattern_matching(line) ==
    LET parts == split(line, 1, <<>>) IN
    IF Len(parts) < 4 THEN None
    ELSE LET rating_idx ==
                 First({k \in 5..Len(parts) : IsRating(parts[k])}) IN
         IF rating_idx = 0 THEN None
         ELSE LET found == First({k \in rating_idx..Len(parts) :
                                       IsPurpose(parts[k])})
                  desc_start == IF found = 0 THEN rating_idx ELSE found
                  spoken_text ==
                      StripQuotes(strip(join(SubSeq(parts, 5, rating_idx - 1))))
                  visual_desc == strip(join(SubSeq(parts, 5, desc_start - 1)))
                  purpose ==
                      strip(join(SubSeq(parts, desc_start, rating_idx - 1)))
                  justification ==
                      StripQuotes(strip(join(SubSeq(parts, rating_idx + 1,
                                                    Len(parts)))))
              IN IfArity(<<strip(parts[1]), strip(parts[2]), strip(parts[3]),
                           strip(parts[4]), spoken_text, visual_desc, purpose,
                           strip(parts[rating_idx]), justification>>, 9)

\* the constructor calls of the loop
VisualSegmentAnalysis(filename, fields) ==
    [video_filename |-> <<filename>>,
     segment_id |-> fields[1],
     start_time |-> fields[2],
     end_time |-> fields[3],
     shot_type |-> fields[4],
     spoken_text |-> fields[5],
     visual_description |-> fields[6],
     inferred_purpose |-> fields[7],
     effectiveness_rating |-> fields[8],
     effectiveness_justification |-> fields[9]]

ScriptAnalysis(fields) ==
    [video_filename |-> fields[1],
     overall_message |-> fields[2],
     script_purpose |-> fields[3],
     tonality |-> fields[4],
     emotional_arc |-> fields[5],
     hook_effectiveness |-> fields[6],
     narrative_flow |-> fields[7],
     transition_quality |-> fields[8],
     call_to_action |-> fields[9],
     recurring_patterns |-> fields[10],
     line_by_line_analysis |-> fields[11],
     effectiveness_score |-> fields[12],
     improvement_suggestions |-> fields[13]]

\* what one pass of the line loop did: how it took the line (one of
\* LineKinds), the fields it got, and what it added to analysis_results
\* and to parse_error
Pass(kind, fields, results) ==
    [kind |-> kind, fields |-> fields, results |-> results,
     parse_error |-> (kind = "bad")]

\* one pass of `for line in normalized_text.strip().split('\n')`
ParseLine(v, filename, line) ==
    IF strip(line) = <<>> THEN Pass("blank", None, <<>>)
    ELSE IF IsHeader(v, line) THEN Pass("header", None, <<>>)
    ELSE LET first == IF v = "reels" THEN fix_csv_line(line)
                      ELSE fix_script_csv_line(line)
             fields == IF v = "reels" /\ ~first.ok
                       THEN extract_fields_pattern_matching(line)
                       ELSE first
         IN IF fields.ok /\ fields.parts # <<>>
               /\ IfArity(fields.parts, Arity(v)).ok
            THEN IF Len(fields.parts) < Arity(v)
                 THEN \* fields[k] raises, the loop catches it
                      Pass("bad", fields, <<>>)
                 ELSE Pass("ok", fields,
                           <<IF v = "reels"
                             THEN VisualSegmentAnalysis(filename, fields.parts)
                             ELSE ScriptAnalysis(fields.parts)>>)
            ELSE Pass("bad", fields, <<>>)

(* ------------------- lines put through the line loop ------------------- *)
\* the characters of the field that is varied
Alphabet == {"x", "7", COMMA, QUOTE, SPACE}

Strings == SeqsUpTo(Alphabet, MaxFieldLen)

\* a text as the prompts ask for it: every quote doubled, the whole in quotes
RECURSIVE Doubled(_)
Doubled(text) ==
    IF text = <<>> THEN <<>>
    ELSE IF Head(text) = QUOTE THEN <<QUOTE, QUOTE>> \o Doubled(Tail(text))
    ELSE <<Head(text)>> \o Doubled(Tail(text))

Enclose(text) == <<QUOTE>> \o Doubled(text) \o <<QUOTE>>

\* a well-formed line of each pipeline, as its list of fields
Wellformed(v) ==
    IF v = "reels"
    THEN << <<"1">>, <<"00:00">>, <<"00:05">>, <<"B-roll">>, <<"x">>,
            <<"x">>, <<"x">>, <<"5">>, <<"x">> >>
    ELSE << <<"a.mp4">>, <<"x">>, <<"x">>, <<"x">>, <<"x">>, <<"x">>,
            <<"x">>, <<"x">>, <<"x">>, <<"x">>, <<"x">>, <<"5">>, <<"x">> >>

\* where a line comes from: its fields, which of them was varied, with what
\* text, and how the text was written into the line
Origin(fields, at, text, how) ==
    [fields |-> fields, at |-> at, text |-> text, how |-> how]

Words(names) == [k \in 1..Len(names) |-> <<names[k]>>]

\* column-name rows: of storage, of the prompt, and in other letter case
HeaderRows(v) ==
    LET rows == IF v = "reels"
                THEN {reels_fieldnames, Tail(reels_fieldnames),
                      reels_prompt_fields}
                ELSE {script_fieldnames, script_prompt_fields}
    IN rows \cup {lower(r) : r \in rows} \cup {upper(r) : r \in rows}

\* the column names of a pipeline, as words that a text field may hold
ColumnNames(v) ==
    LET names == IF v = "reels" THEN reels_fieldnames ELSE script_fieldnames
    IN {names[k] : k \in 1..Len(names)}

Origins(v) ==
    {Origin([Wellformed(v) EXCEPT ![at] = text], at, text, "plain") :
        at \in 1..Arity(v), text \in Strings}
    \cup {Origin([Wellformed(v) EXCEPT ![at] = Enclose(text)], at, text,
                 "enclosed") : at \in 1..Arity(v), text \in Strings}
    \cup {Origin(Words(row), 0, <<>>, "header") : row \in HeaderRows(v)}
    \cup {Origin(<<text>>, 0, text, "blank") : text \in {<<>>, <<SPACE>>}}
    \cup {Origin([Wellformed(v) EXCEPT ![at] = <<name>>], at, <<name>>,
                 "named") : at \in 1..Arity(v), name \in ColumnNames(v)}
    \cup {Origin([Wellformed(v) EXCEPT
                      ![at] = <<LDQUO>> \o text \o <<RDQUO>>], at, text,
                 "curly") : at \in 1..Arity(v), text \in Strings}

LineInit ==
    /\ variant \in Variants
    /\ resolved = [n \in Entries |-> "a.mp4"]
    /\ master_csv = <<>>
    /\ buffer = <<>>
    /\ run = 1
    /\ reports = <<>>
    /\ pc = "analyze"
    /\ i = 1
    /\ analyzed_videos = {}
    /\ failed_links = <<>>
    /\ all_analysis_results = <<>>
    /\ request_timestamps = <<>>
    /\ now = 0
    /\ video_filename = "a.mp4"
    /\ new_results = <<>>
    /\ parse_error = FALSE
    /\ written = 0
    /\ trace = <<>>
    /\ outcome = [n \in Entries |-> "pending"]
    /\ pushed = <<>>
    /\ called = <<>>
    /\ origin \in Origins(variant)
    /\ raw_line = normalized_text(join(origin.fields))
    /\ stage = "line"
    /\ out = <<>>
    /\ video_file = "-"
    /\ processing_start_time = 0
    /\ current_time = 0

\* what stays as it is while a line is worked on
LineKept ==
    <<variant, resolved, master_csv, buffer, run, reports, pc, i,
      analyzed_videos, failed_links, all_analysis_results,
      request_timestamps, now, video_filename, new_results, parse_error,
      written, trace, outcome, pushed, called, origin, raw_line, loops>>

\* fix_csv_line / fix_script_csv_line is called with the line
CallFixLine ==
    /\ stage = "line"
    /\ stage' = "fixed"
    /\ out' = IF variant = "reels" THEN fix_csv_line(raw_line)
              ELSE fix_script_csv_line(raw_line)
    /\ UNCHANGED LineKept

\* the repair of fix_csv_line runs on the line cut at every comma
RunRepair ==
    /\ stage = "line"
    /\ stage' = "repaired"
    /\ out' = FixParts(split(raw_line, 1, <<>>), 1, <<>>)
    /\ UNCHANGED LineKept

\* the line loop takes the line
LoopPass ==
    /\ stage = "line"
    /\ stage' = "looped"
    /\ out' = ParseLine(variant, video_filename, raw_line)
    /\ UNCHANGED LineKept

LineNext ==
    \/ CallFixLine
    \/ RunRepair
    \/ LoopPass

LineSpec == LineInit /\ [][LineNext]_vars

(* ------------------ the status poll of one analysis -------------------- *)
\* the most seconds a call of upload_file or get_file takes
MaxLatency == 1

Latency == 0..MaxLatency

\* the 300 of `time.time() - processing_start_time > 300`
poll_timeout == 300

\* the 10 of `time.sleep(10)`
poll_interval == 10

\* video_file.state.name
FileStates == {"PROCESSING", "ACTIVE", "FAILED"}

\* mutant: the timeout is tested against twice the limit
TimedOut_Late(elapsed) == elapsed > 2 * poll_timeout

\* `time.time() - processing_start_time > 300`
TimedOut(elapsed) == elapsed > poll_timeout

\* analyze_video has been called for the last entry of the work list
PollInit ==
    /\ variant \in Variants
    /\ resolved = [n \in Entries |-> "a.mp4"]
    /\ master_csv = <<>>
    /\ buffer = <<>>
    /\ run = 1
    /\ reports = <<>>
    /\ pc = "upload"
    /\ i = Len(links)
    /\ analyzed_videos = {}
    /\ failed_links = <<>>
    /\ all_analysis_results = <<>>
    /\ request_timestamps = <<0>>
    /\ now = 0
    /\ video_filename = "a.mp4"
    /\ new_results = <<>>
    /\ parse_error = FALSE
    /\ written = 0
    /\ trace = <<"analyze">>
    /\ outcome = [n \in Entries |-> IF n = Len(links) THEN "pending"
                                   ELSE "skipped"]
    /\ pushed = <<>>
    /\ called = <<>>
    /\ origin = <<>>
    /\ raw_line = <<>>
    /\ stage = "poll"
    /\ out = <<>>
    /\ video_file = "-"
    /\ processing_start_time = 0
    /\ current_time = 0

\* what stays as it is during the poll
PollKept ==
    <<variant, resolved, master_csv, buffer, run, reports, analyzed_videos,
      all_analysis_results, request_timestamps, video_filename, written,
      pushed, called, origin, raw_line, stage, out, current_time>>

\* genai.upload_file returns the handle or raises;
\* `processing_start_time = time.time()`
UploadFile ==
    /\ pc = "upload"
    /\ \E r \in FileStates \cup {"raise"}, d \in Latency :
        /\ now' = now + d
        /\ IF r = "raise"
           THEN /\ pc' = "except"
                /\ trace' = trace \o <<"upload", "raise">>
                /\ UNCHANGED <<video_file, processing_start_time>>
           ELSE /\ pc' = "while"
                /\ trace' = trace \o <<"upload", "processing">>
                /\ video_file' = r
                /\ processing_start_time' = now + d
    /\ UNCHANGED <<i, failed_links, new_results, parse_error, outcome>>
    /\ UNCHANGED PollKept

\* `while video_file.state.name == "PROCESSING":` and the timeout test
PollTest ==
    /\ pc = "while"
    /\ IF video_file # "PROCESSING"
       THEN /\ pc' = "polled"
            /\ trace' = trace
       ELSE IF TimedOut(now - processing_start_time)
       THEN /\ pc' = "except"
            /\ trace' = trace \o <<"TimeoutError">>
       ELSE /\ pc' = "sleep"
            /\ trace' = trace
    /\ UNCHANGED <<i, failed_links, now, new_results, parse_error, outcome,
                   video_file, processing_start_time>>
    /\ UNCHANGED PollKept

\* `time.sleep(10)` and `video_file = genai.get_file(video_file.name)`
PollSleep ==
    /\ pc = "sleep"
    /\ \E r \in FileStates \cup {"raise"}, d \in Latency :
        /\ now' = now + poll_interval + d
        /\ IF r = "raise"
           THEN /\ pc' = "except"
                /\ trace' = trace \o <<"get_file", "raise">>
                /\ video_file' = video_file
           ELSE /\ pc' = "while"
                /\ trace' = trace \o <<"get_file">>
                /\ video_file' = r
    /\ UNCHANGED <<i, failed_links, new_results, parse_error, outcome,
                   processing_start_time>>
    /\ UNCHANGED PollKept

\* `if video_file.state.name == "FAILED": raise ValueError(...)`, or
\* "Video processed successfully." and the analysis goes on
PollEnd ==
    /\ pc = "polled"
    /\ IF video_file = "FAILED"
       THEN /\ pc' = "except"
            /\ trace' = trace \o <<"ValueError">>
       ELSE /\ pc' = "processed"
            /\ trace' = trace \o <<"Video processed successfully.">>
    /\ UNCHANGED <<i, failed_links, now, new_results, parse_error, outcome,
                   video_file, processing_start_time>>
    /\ UNCHANGED PollKept

\* `except Exception as e: ... return [], True`, and the branch of the
\* orchestrator on the returned pair
PollExcept ==
    /\ pc = "except"
    /\ new_results' = <<>>
    /\ parse_error' = TRUE
    /\ trace' = trace
    /\ LET kind == IF trace[Len(trace)] = "TimeoutError"
                   THEN "generation-timeout" ELSE "generation-failed"
       IN IF Disposition(<<>>, TRUE) = "fail"
          THEN Failed(kind)
          ELSE /\ failed_links' = failed_links
               /\ Ends(kind)
    /\ UNCHANGED <<now, video_file, processing_start_time>>
    /\ UNCHANGED PollKept

PollNext ==
    \/ UploadFile
    \/ PollTest
    \/ PollSleep
    \/ PollEnd
    \/ PollExcept

\* the thread that runs analyze_video keeps taking steps
PollSpec == PollInit /\ [][PollNext]_vars /\ WF_vars(PollNext)

(* --------------------- the rate-limit step, by steps ------------------- *)
\* the most seconds by which time.sleep returns late
MaxOversleep == 1

Oversleep == 0..MaxOversleep

\* the most waits of one rate-limit step that are followed
MaxSleeps == 3

\* the times at which the rate-limit step is reached
GateTimes == {20, time_window - 1, time_window, time_window + 1, 90}

\* the queue when the step is reached: n timestamps in order, the first m
\* pushed at 0 and the others at t
GateQueues(t) ==
    {[k \in 1..n |-> IF k <= m THEN 0 ELSE t] :
        n \in {requests_per_minute - 1, requests_per_minute}, m \in 0..2}

\* an entry that is not in the Ledger has reached the rate-limit step
GateInit ==
    /\ variant \in Variants
    /\ resolved = [n \in Entries |-> "a.mp4"]
    /\ master_csv = <<>>
    /\ buffer = <<>>
    /\ run = 1
    /\ reports = <<>>
    /\ pc = "enter"
    /\ i = 1
    /\ analyzed_videos = {}
    /\ failed_links = <<>>
    /\ all_analysis_results = <<>>
    /\ now \in GateTimes
    /\ request_timestamps \in GateQueues(0) \cup GateQueues(20)
    /\ video_filename = "a.mp4"
    /\ new_results = <<>>
    /\ parse_error = FALSE
    /\ written = 0
    /\ trace = <<"get-filename">>
    /\ outcome = [n \in Entries |-> "pending"]
    /\ pushed = <<>>
    /\ called = <<>>
    /\ origin = <<>>
    /\ raw_line = <<>>
    /\ stage = "gate"
    /\ out = <<>>
    /\ video_file = "-"
    /\ processing_start_time = 0
    /\ current_time = 0

\* what stays as it is during the rate-limit step
GateKept ==
    <<variant, resolved, master_csv, buffer, run, reports, i,
      analyzed_videos, failed_links, all_analysis_results, video_filename,
      new_results, parse_error, written, outcome, pushed, called, origin,
      raw_line, stage, out, video_file, processing_start_time>>

\* `current_time = time.time()`
GateEnter ==
    /\ pc = "enter"
    /\ current_time' = now
    /\ pc' = "while"
    /\ UNCHANGED <<request_timestamps, now, trace>>
    /\ UNCHANGED GateKept

\* the queue is full and its oldest timestamp is older than the window:
\* `request_timestamps.popleft()`
GatePop ==
    /\ pc = "while"
    /\ Len(request_timestamps) >= requests_per_minute
    /\ current_time - Head(request_timestamps) > time_window
    /\ request_timestamps' = Tail(request_timestamps)
    /\ UNCHANGED <<pc, now, trace, current_time>>
    /\ UNCHANGED GateKept

\* the queue is full and its oldest timestamp is not older than the window:
\* wait_time is computed and printed, `time.sleep(wait_time)` returns and
\* `current_time = time.time()`
GateSleep ==
    /\ pc = "while"
    /\ Len(request_timestamps) >= requests_per_minute
    /\ ~(current_time - Head(request_timestamps) > time_window)
    /\ Len(SelectSeq(trace, LAMBDA e : e = "sleep")) < MaxSleeps
    /\ LET time_since_oldest_request ==
               current_time - Head(request_timestamps)
           wait_time == time_window - time_since_oldest_request
       IN \E late \in Oversleep :
           /\ now' = now + wait_time + late
           /\ current_time' = now + wait_time + late
    /\ trace' = trace \o <<"Rate limit reached", "sleep">>
    /\ UNCHANGED <<pc, request_timestamps>>
    /\ UNCHANGED GateKept

\* the queue is not full: the loop is left,
\* `request_timestamps.append(time.time())`
GatePush ==
    /\ pc = "while"
    /\ Len(request_timestamps) < requests_per_minute
    /\ request_timestamps' = Append(request_timestamps, now)
    /\ trace' = trace \o <<"acquire">>
    /\ pc' = "fetch"
    /\ UNCHANGED <<now, current_time>>
    /\ UNCHANGED GateKept

GateNext ==
    \/ GateEnter
    \/ GatePop
    \/ GateSleep
    \/ GatePush

GateSpec == GateInit /\ [][GateNext]_vars

(* ------------------------- vocabulary of claims ------------------------ *)
Has(seq, x) == \E k \in 1..Len(seq) : seq[k] = x

Count(seq, x) == Cardinality({k \in 1..Len(seq) : seq[k] = x})

\* x occurs in seq, and y only after it
Before(seq, x, y) ==
    \E k \in 1..Len(seq) :
        /\ seq[k] = x
        /\ \A m \in 1..Len(seq) : seq[m] = y => k < m

\* the entry the trace belongs to: the current one, or the one just ended
Cur == IF pc \in {"resolve", "report", "done"} THEN i - 1 ELSE i

\* the process is between two entries of the work list, or after the last
BetweenItems == pc \in {"resolve", "report"}

\* the process is alive or has finished normally
Alive == pc \in Running \cup {"done"}

\* calls into the generation service
GenerationCalls == {"upload", "get_file", "transcribe", "generate"}

\* the data rows among rows
DataRows(rows) == SelectSeq(rows, LAMBDA r : r # HeaderRow)

\* the error kinds of the error handling design
ErrorKinds ==
    {"fetch-metadata-error", "fetch-error", "generation-timeout",
     "generation-failed", "parse-error", "storage-error"}

(* ------------------------------- claims -------------------------------- *)

\* C1: between work-list items of a run, a key is in the in-memory Ledger
\* if and only if storage holds records for that key; in particular the
\* Ledger contains an item's key once its records are appended.
C1_LedgerMatchesStorage ==
    BetweenItems => analyzed_videos = LoadKeys(master_csv)

\* C2: once an entry's records have been appended, no later entry of the
\* same run that resolves to the same key is downloaded, analyzed or
\* appended again.
C2_AtMostOncePerKey ==
    \A e \in Entries :
        (/\ Alive
         /\ Cur \in Entries
         /\ e < Cur
         /\ outcome[e] = "persisted"
         /\ resolved[e] = resolved[Cur])
        => (/\ ~Has(trace, "download")
            /\ ~Has(trace, "analyze")
            /\ ~Has(trace, "append"))

\* C3: in a run that follows a run which reported no failed item, no call
\* into the generation service is made and nothing is appended to storage.
C3_IdempotentRerun ==
    (/\ Alive
     /\ \E r \in 1..Len(reports) :
            reports[r].run = run - 1 /\ reports[r].failed = <<>>)
    => (/\ \A call \in GenerationCalls : ~Has(trace, call)
        /\ ~Has(trace, "append"))

\* C4: an append that fails, at open or at any row, does not bring the
\* item's key into the Ledger that the next run loads from storage.
C4_FailedAppendLeavesNoKey ==
    [][(/\ pc \in {"open", "rows"}
        /\ outcome'[i] = "storage-error"
        /\ video_filename \notin LoadKeys(master_csv))
       => video_filename \notin LoadKeys(master_csv')]_vars

\* C5: at every point of an append, and after it, storage holds either all
\* of the records of the appended item or none of them.
C5_AllOrNothing ==
    Has(trace, "append")
    => (written - Len(DataRows(buffer))) \in {0, Len(new_results)}

\* C6: when a line of an entry's generation output fails to parse, nothing
\* of the entry is written to storage, the Ledger does not get its key, and
\* its link is in the failure list, whatever the other lines gave.
C6_ParseErrorDiscardsItem ==
    /\ [](Has(trace, "[PARSE ERROR]")
          => (/\ ~Has(trace, "append")
              /\ pc \notin {"open", "rows"}
              /\ buffer = <<>>
              /\ resolved[Cur] \notin analyzed_videos
              /\ Has(failed_links, links[Cur])))
    /\ [][Has(trace', "[PARSE ERROR]")
          => (master_csv' = master_csv
              /\ analyzed_videos' = analyzed_videos)]_vars

\* C6 witness: an entry with a parsed line and an unparsable line has ended
C6_Witness ==
    /\ Has(trace, "[PARSE ERROR]")
    /\ new_results # <<>>
    /\ parse_error
    /\ outcome[Cur] = "parse-error"

\* C7: for an entry whose resolved key is in the loaded Ledger only the name
\* resolution happens: no rate-limit slot, no download, no analysis, no
\* append, no failure entry, and the loop is at the next entry.
C7_SkipDoesNothingElse ==
    (/\ Alive
     /\ Cur \in Entries
     /\ trace # <<>>
     /\ outcome[Cur] # "fetch-metadata-error"
     /\ resolved[Cur] \in analyzed_videos)
    => (/\ trace = <<"get-filename">>
        /\ pc \in {"resolve", "report", "done"}
        /\ i = Cur + 1
        /\ ~Has(failed_links, links[Cur])
        /\ Len(request_timestamps) < Cur)

\* C7 witness: the first entry was skipped and the loop is at the second
C7_Witness ==
    /\ pc = "resolve"
    /\ i = 2
    /\ outcome[1] = "skipped"
    /\ resolved[1] \in analyzed_videos

\* C8: for an entry that is new, not cached and parsed without error, the
\* calls are, in this order, one name resolution, one download, one
\* analysis and one append; in the reels pipeline the appended records
\* carry the entry's key, and a completed append leaves them at the end of
\* the storage file.
C8_FullWorkflow ==
    (/\ Alive
     /\ Has(trace, "append")
     /\ ~Has(trace, "already-exists"))
    => (/\ Count(trace, "get-filename") = 1
        /\ Count(trace, "download") = 1
        /\ Count(trace, "analyze") = 1
        /\ Count(trace, "append") = 1
        /\ Before(trace, "get-filename", "download")
        /\ Before(trace, "download", "analyze")
        /\ Before(trace, "analyze", "append")
        /\ new_results # <<>>
        /\ variant = "reels" =>
               \A k \in 1..Len(new_results) :
                   new_results[k].video_filename = resolved[Cur]
        /\ Has(trace, "appended") =>
               /\ Len(master_csv) > Len(new_results)
               /\ SubSeq(master_csv, Len(master_csv) - Len(new_results) + 1,
                         Len(master_csv)) = new_results)

\* C8 witness: a downloaded entry of the reels pipeline has been appended
C8_Witness ==
    /\ variant = "reels"
    /\ Has(trace, "download")
    /\ Has(trace, "appended")
    /\ outcome[Cur] = "persisted"

\* the failures of name resolution, download, generation and parsing
ItemFailures ==
    {"fetch-metadata-error", "fetch-error", "generation-timeout",
     "generation-failed", "delete-failed", "parse-error"}

\* every entry has ended and the last report lists every failed entry
AllVisitedAndReported ==
    /\ pc = "done"
    /\ i = Len(links) + 1
    /\ reports # <<>>
    /\ \A e \in Entries :
        /\ outcome[e] # "pending"
        /\ outcome[e] \in ItemFailures
               => Has(reports[Len(reports)].failed, links[e])

\* C9: whatever fails for whichever entries, a run gets through the whole
\* work list: every entry ends, and the report lists every failed entry.
C9_RunVisitsEveryEntry == <>AllVisitedAndReported

\* C9 witness: the first entry failed, and the second was still persisted
C9_Witness ==
    /\ AllVisitedAndReported
    /\ outcome[1] \in ItemFailures
    /\ outcome[2] = "persisted"

\* C10: an entry that ran into any of the error kinds, a failed append
\* included, has its link in the failure list.
C10_EveryErrorIsReported ==
    \A e \in Entries :
        (Alive /\ outcome[e] \in ErrorKinds) => Has(failed_links, links[e])

\* C11: whenever the upload gave a handle, delete is attempted before
\* analyze_video / analyze_script returns, on every path through it.
C11_HandleAlwaysDeleted ==
    (Has(trace, "analyze") /\ Has(trace, "processing"))
    => Has(trace, "delete")

\* C12: when every line of the generation output parsed and delete then
\* raises, the entry is still a success: the analysis returns without the
\* error flag and the entry's link is not in the failure list.
C12_DeleteFailureIsNotItemFailure ==
    (/\ Alive
     /\ Cur \in Entries
     /\ outcome[Cur] = "delete-failed"
     /\ Has(trace, "generate")
     /\ ~Has(trace, "[PARSE ERROR]"))
    => (/\ ~Has(failed_links, links[Cur])
        /\ parse_error = FALSE)

\* any n + 1 consecutive elements of a sequence of times span more than w
Spaced(times, n, w) ==
    \A a, b \in 1..Len(times) : b - a >= n => times[b] - times[a] > w

\* C13: of the timestamps the rate-limit step pushes, no 60-second window
\* holds more than 10, and at any instant at most 10 of the timestamps in
\* the queue are younger than 60 seconds.
C13_RateLimiterBound ==
    /\ Spaced(pushed, requests_per_minute, time_window)
    /\ Cardinality({k \in 1..Len(request_timestamps) :
                       now - request_timestamps[k] < time_window})
           <= requests_per_minute

\* C13 witness: ten entries came at the same second and the eleventh had
\* to wait for the window to pass
C13_Witness ==
    /\ Len(pushed) = requests_per_minute + 1
    /\ pushed[requests_per_minute] = pushed[1]
    /\ trace = <<"Rate limit reached">>
    /\ pushed[requests_per_minute + 1] > pushed[1] + time_window

\* C14: no 60-second window of a run holds more than 10 upload and
\* generate_content calls.
C14_GenerationCallRateBound ==
    Spaced(called, requests_per_minute, time_window)

\* the character occurs in the string
In(c, str) == \E k \in 1..Len(str) : str[k] = c

\* the fields of a record in the order of the line they were built from
FieldsOf(v, record) ==
    IF v = "reels"
    THEN <<record.segment_id, record.start_time, record.end_time,
           record.shot_type, record.spoken_text, record.visual_description,
           record.inferred_purpose, record.effectiveness_rating,
           record.effectiveness_justification>>
    ELSE <<record.video_filename, record.overall_message,
           record.script_purpose, record.tonality, record.emotional_arc,
           record.hook_effectiveness, record.narrative_flow,
           record.transition_quality, record.call_to_action,
           record.recurring_patterns, record.line_by_line_analysis,
           record.effectiveness_score, record.improvement_suggestions>>

\* the place of the rating among the fields of a line, and its valid range
RatingAt(v) == IF v = "reels" THEN 8 ELSE 12

RatingRange(v) == IF v = "reels" THEN 1..5 ELSE 1..10

\* int(field) succeeds and is in the range
ValidRating(v, field) ==
    isdigit(strip(field)) /\ IntOf[strip(field)[1]] \in RatingRange(v)

\* C15: a line written by joining with commas N fields that hold neither
\* comma nor quote (and may be empty) is taken apart by fix_csv_line /
\* fix_script_csv_line into those N fields, unchanged and in order.
C15_TokenizerReturnsFields ==
    (/\ stage = "fixed"
     /\ origin.how = "plain"
     /\ ~In(COMMA, origin.text)
     /\ ~In(QUOTE, origin.text))
    => out = Fields(origin.fields)

\* C16: a text with quotes in it, written into an otherwise well-formed
\* line in quotes and with its quotes doubled, is what the record built
\* from the line holds in that field.
C16_QuoteRoundTrip ==
    (/\ stage = "looped"
     /\ origin.how = "enclosed"
     /\ In(QUOTE, origin.text))
    => (/\ out.results # <<>>
        /\ FieldsOf(variant, out.results[1])[origin.at] = origin.text)

\* C17: when the one field in quotes of a field list holds commas and no
\* quote, the repair pass run on the list cut at those commas gives back
\* the N fields of the list.
C17_RepairMergesFragments ==
    (/\ stage = "repaired"
     /\ origin.how = "enclosed"
     /\ In(COMMA, origin.text)
     /\ ~In(QUOTE, origin.text))
    => out = origin.fields

\* C18: a line that is the column-name row, in whatever letter case, is
\* dropped by the line loop: no record, and no parse error.
C18_HeaderSuppressed ==
    (stage = "looped" /\ origin.how = "header")
    => (/\ out.kind = "header"
        /\ out.results = <<>>
        /\ ~out.parse_error)

\* C18 witness: the field names of the reels prompt, as a line, were dropped
C18_Witness ==
    /\ stage = "looped"
    /\ variant = "reels"
    /\ raw_line = join(Words(reels_prompt_fields))
    /\ out.kind = "header"

\* C19: a line whose rating field, after reconciliation, is not an integer
\* in the valid range gives no record and sets the parse-error flag.
C19_RatingIsChecked ==
    (/\ stage = "looped"
     /\ out.fields.ok
     /\ ~ValidRating(variant, out.fields.parts[RatingAt(variant)]))
    => (out.results = <<>> /\ out.parse_error)

\* neither fix_csv_line nor the fallback gives the fields of a data line
Unreconciled(v, text) ==
    /\ strip(text) # <<>>
    /\ ~IsHeader(v, text)
    /\ ~FixLine(text, Arity(v)).ok
    /\ v = "reels" => ~extract_fields_pattern_matching(text).ok

\* C20: a record comes only from a reconciled list of exactly N fields,
\* which are its fields; a line that neither strategy reconciles to N
\* fields gives no record and sets the parse-error flag.
C20_RecordArity ==
    stage = "looped"
    => (/\ out.results # <<>>
            => (/\ out.fields.ok
                /\ Len(out.fields.parts) = Arity(variant)
                /\ FieldsOf(variant, out.results[1]) = out.fields.parts)
        /\ Unreconciled(variant, raw_line)
            => (out.results = <<>> /\ out.parse_error))

\* C20 witness: fix_csv_line gave up on a line and the fallback got nine
\* fields from it, of which the record was built
C20_Witness ==
    /\ stage = "looped"
    /\ variant = "reels"
    /\ ~fix_csv_line(raw_line).ok
    /\ out.results # <<>>
    /\ Len(out.fields.parts) = 9

\* C21: whatever appends were made to the storage file, in one run or in
\* several, the file has the header row once, as its first row, and an
\* open file object holds a header row only if it found the file empty.
C21_HeaderOnce ==
    /\ master_csv # <<>>
        => (/\ master_csv[1] = HeaderRow
            /\ Count(master_csv, HeaderRow) = 1)
    /\ Has(buffer, HeaderRow)
        => (/\ master_csv = <<>>
            /\ buffer[1] = HeaderRow
            /\ Count(buffer, HeaderRow) = 1)

\* C21 witness: the second run of the pipeline has made an append to the
\* file that the first run wrote
C21_Witness ==
    /\ run = 2
    /\ Has(trace, "appended")
    /\ analyzed_videos # {}
    /\ Len(master_csv) > Len(new_results) + 1

\* the entries of the run that got past the Ledger check
PastLedgerCheck ==
    {e \in Entries :
        \/ outcome[e] \notin {"pending", "skipped", "fetch-metadata-error"}
        \/ e = i /\ pc \in {"fetch", "analyze", "open", "rows"}}

\* C23: when the run has ended, every entry of the work list is in exactly
\* one of three classes: skipped for its key in the Ledger, persisted in
\* this run, or listed in the failure report.
C23_EveryItemAccounted ==
    pc = "done"
    => \A e \in Entries :
           Cardinality({c \in {"skipped", "persisted", "failed"} :
               \/ c = "skipped" /\ outcome[e] = "skipped"
               \/ c = "persisted" /\ outcome[e] = "persisted"
               \/ c = "failed"
                  /\ Has(reports[Len(reports)].failed, links[e])}) = 1

\* C24: in both pipelines every record handed to the append has in its
\* video_filename field the resolved filename of its entry, the key the
\* orchestrator looks up in the Ledger.
C24_PersistedKeyIsDerivedKey ==
    Has(trace, "append")
    => \A k \in 1..Len(new_results) :
           new_results[k].video_filename = video_filename

\* C28: an entry that got past the Ledger check has pushed one timestamp,
\* after the name resolution and before its download and its calls into
\* the generation service; a skipped entry has pushed none, so the queue
\* holds one timestamp for each entry that got past the Ledger check.
C28_OneSlotBeforeWork ==
    /\ (Alive /\ Cur \in PastLedgerCheck)
        => (/\ Count(trace, "acquire") = 1
            /\ Before(trace, "get-filename", "acquire")
            /\ Before(trace, "acquire", "download")
            /\ Before(trace, "acquire", "already-exists")
            /\ Before(trace, "acquire", "analyze")
            /\ \A call \in GenerationCalls : Before(trace, "acquire", call))
    /\ (Alive /\ Cur \in Entries /\ outcome[Cur] = "skipped")
        => ~Has(trace, "acquire")
    /\ Alive => Len(request_timestamps) = Cardinality(PastLedgerCheck)

\* C28 witness: the second entry was downloaded and uploaded after its
\* push, the first having been skipped
C28_Witness ==
    /\ Cur = 2
    /\ outcome[1] = "skipped"
    /\ Has(trace, "download")
    /\ Has(trace, "upload")
    /\ Len(request_timestamps) = 1

\* C29: when the name resolution of an entry fails, the link is added to
\* the failure list once and nothing else happens for the entry: no push,
\* no download, no call into the generation service, storage and Ledger
\* as before; the loop is at the next entry.
C29_MetadataFailureFrame ==
    [][(pc = "resolve" /\ outcome'[i] = "fetch-metadata-error")
       => (/\ failed_links' = Append(failed_links, links[i])
           /\ Count(failed_links', links[i]) = 1
           /\ request_timestamps' = request_timestamps
           /\ trace' = <<"get-filename">>
           /\ master_csv' = master_csv
           /\ buffer' = buffer
           /\ analyzed_videos' = analyzed_videos
           /\ all_analysis_results' = all_analysis_results
           /\ i' = i + 1
           /\ pc' = IF i = Len(links) THEN "report" ELSE "resolve")]_vars

\* C29 witness: the name resolution of the first entry failed and the
\* loop is at the second entry
C29_Witness ==
    /\ pc = "resolve"
    /\ i = 2
    /\ outcome[1] = "fetch-metadata-error"
    /\ failed_links = <<links[1]>>
    /\ request_timestamps = <<>>

\* C26: after every rate-limit step the queue holds no timestamp older than
\* time_window seconds, whether or not it has requests_per_minute entries.
C26_QueueHoldsLastWindow ==
    (pc = "analyze" /\ request_timestamps # <<>>)
    => \A k \in 1..Len(request_timestamps) :
           now - request_timestamps[k] <= time_window

\* C25: a line of the generation output that is not blank and is not the
\* column-name row gives a record or sets the parse-error flag, also when
\* one of its fields holds a column name.
C25_NoSilentLineLoss ==
    (/\ stage = "looped"
     /\ origin.how \notin {"header", "blank"}
     /\ strip(raw_line) # <<>>)
    => (out.results # <<>> \/ out.parse_error)

\* C30: the line handed to the tokenizer holds no curly double quote: each
\* one in the generation output has become a straight quote, so that a
\* field written in curly quotes with a comma inside stays one field.
C30_QuotesNormalized ==
    /\ stage # "-" => (~In(LDQUO, raw_line) /\ ~In(RDQUO, raw_line))
    /\ (/\ stage = "fixed"
        /\ origin.how = "curly"
        /\ In(COMMA, origin.text)
        /\ ~In(QUOTE, origin.text))
       => (out.ok /\ Len(out.parts) = Arity(variant))

\* the positions inside the status poll
Polling == {"while", "sleep", "polled"}

\* C22: the status poll ends: the status is no longer PROCESSING, or more
\* than 300 seconds have passed since it began (and then not more than one
\* sleep and one call later); after a timeout or a FAILED status the link is
\* in the failure list and nothing of the entry has been written.
C22_BoundedPolling ==
    /\ [](pc \in Polling
          => now - processing_start_time
                 <= poll_timeout + poll_interval + MaxLatency)
    /\ [](pc = "polled" => video_file # "PROCESSING")
    /\ [](Has(trace, "TimeoutError")
          => now - processing_start_time > poll_timeout)
    /\ <>(pc \notin Polling \cup {"upload", "except"})
    /\ []((stage = "poll" /\ pc = "report"
           /\ (Has(trace, "TimeoutError") \/ Has(trace, "ValueError")))
          => (/\ failed_links = <<links[Len(links)]>>
              /\ new_results = <<>>
              /\ all_analysis_results = <<>>
              /\ master_csv = <<>>
              /\ buffer = <<>>))

\* C22 witness: the poll has timed out after polls that all reported
\* PROCESSING, and the link is in the failure list
C22_Witness ==
    /\ stage = "poll"
    /\ pc = "report"
    /\ Has(trace, "TimeoutError")
    /\ Count(trace, "get_file") >= 30
    /\ outcome[Len(links)] = "generation-timeout"
    /\ failed_links = <<links[Len(links)]>>

\* C27: when the rate-limit step has waited, the test that follows finds
\* the oldest timestamp older than the window and evicts it, also when the
\* clock has advanced by the computed wait and no more: one wait is enough.
C27_OneWaitThenEvicted ==
    (/\ stage = "gate"
     /\ pc = "while"
     /\ Has(trace, "sleep")
     /\ Len(request_timestamps) >= requests_per_minute)
    => current_time - Head(request_timestamps) > time_window

\* every field is as str.strip() leaves it
Trimmed(parts) == \A k \in 1..Len(parts) : strip(parts[k]) = parts[k]

\* C31: every field that fix_csv_line / fix_script_csv_line returns has no
\* blank at its start or at its end, whether the line split into N fields
\* at once or the repair ran.
C31_FieldsTrimmed ==
    (stage = "fixed" /\ out.ok) => Trimmed(out.parts)

\* the tokenizer as specified: a quote toggles the flag, but two quotes in
\* a row inside a quoted span are one literal quote, passed on doubled;
\* a comma outside a quoted span ends the field; each field is trimmed
RECURSIVE SpecifiedScan(_, _, _, _, _)
SpecifiedScan(chars, k, parts, current_part, in_quotes) ==
    IF k > Len(chars)
    THEN IF current_part # <<>> THEN Append(parts, current_part) ELSE parts
    ELSE IF chars[k] = QUOTE
    THEN IF in_quotes /\ k + 1 <= Len(chars) /\ chars[k + 1] = QUOTE
         THEN SpecifiedScan(chars, k + 2, parts,
                            current_part \o <<QUOTE, QUOTE>>, in_quotes)
         ELSE SpecifiedScan(chars, k + 1, parts,
                            Append(current_part, QUOTE), ~in_quotes)
    ELSE IF chars[k] = COMMA /\ ~in_quotes
    THEN SpecifiedScan(chars, k + 1, Append(parts, current_part), <<>>,
                       in_quotes)
    ELSE SpecifiedScan(chars, k + 1, parts, Append(current_part, chars[k]),
                       in_quotes)

SpecifiedTokenizer(line) ==
    LET parts == SpecifiedScan(line, 1, <<>>, <<>>, FALSE)
    IN [k \in 1..Len(parts) |-> strip(parts[k])]

\* the number of quotes before position k of a line
QuotesBefore(line, k) ==
    Cardinality({m \in 1..(k - 1) : line[m] = QUOTE})

\* the commas of a line at which a field ends: those with an even number
\* of quotes before them
Boundaries(line) ==
    {k \in 1..Len(line) : line[k] = COMMA /\ QuotesBefore(line, k) % 2 = 0}

\* C32: on every line the tokenizer of the code gives the fields that the
\* specified tokenizer gives, the same in number and in content, and it
\* ends a field at a comma exactly when the number of quotes before the
\* comma is even.
C32_TokenizerAsSpecified ==
    stage = "fixed"
    => LET parts == Tokenize(raw_line, 1, <<>>, <<>>, FALSE)
       IN /\ parts = SpecifiedTokenizer(raw_line)
          /\ Len(parts) \in {Cardinality(Boundaries(raw_line)),
                            Cardinality(Boundaries(raw_line)) + 1}

\* the fields with every one trimmed
Trim(parts) == [k \in 1..Len(parts) |-> strip(parts[k])]

\* C33: what the repair pass gives is left as it is by the repair pass,
\* in the number of the fields and, trimming aside, in their content: for
\* the list of a line cut at every comma, and for the list the character
\* loop gives.
C33_RepairIsStable ==
    /\ stage = "repaired"
        => Trim(FixParts(out, 1, <<>>)) = Trim(out)
    /\ stage = "fixed"
        => LET once == FixParts(Tokenize(raw_line, 1, <<>>, <<>>, FALSE),
                                1, <<>>)
           IN Trim(FixParts(once, 1, <<>>)) = Trim(once)

\* C33 witness: the repair has joined three parts of a line into the one
\* field in quotes that they were cut from
C33_Witness ==
    /\ stage = "repaired"
    /\ origin.how = "enclosed"
    /\ origin.text = <<"x", COMMA, COMMA>>
    /\ Len(out) = Len(origin.fields)
    /\ Len(split(raw_line, 1, <<>>)) = Len(out) + 2

\* the shot types that ANALYSIS_PROMPT names
ShotTypes == {<<"Talking Head">>, <<"B-roll">>}

\* a text without the blanks and the one quote at each end
Bare(str) == StripQuotes(strip(str))

\* the line loop took the fields of the line from the fallback
FallbackGaveFields ==
    /\ stage = "looped"
    /\ variant = "reels"
    /\ ~fix_csv_line(raw_line).ok
    /\ out.fields.ok

\* C34: in a field list that extract_fields_pattern_matching returns, the
\* shot type (field 4) without its quotes is one of the shot types, and
\* the rating (field 8) is an integer from 1 to 5.
C34_AnchorFieldsHoldAnchors ==
    FallbackGaveFields
    => (/\ Bare(out.fields.parts[4]) \in ShotTypes
        /\ IsRating(out.fields.parts[8]))

\* C35: in a field list that extract_fields_pattern_matching returns, the
\* fragments between the shot type and the rating are dealt in order to
\* the spoken text, the visual description and the purpose, each fragment
\* to one of them; the rating fragment is the rating, and the fragments
\* after it are the justification.
C35_FragmentsDealtOnce ==
    FallbackGaveFields
    => LET parts == split(raw_line, 1, <<>>)
           r == First({k \in 5..Len(parts) : IsRating(parts[k])})
           f == out.fields.parts
       IN /\ \E a, b \in 5..r :
               /\ a <= b
               /\ Bare(f[5]) = Bare(join(SubSeq(parts, 5, a - 1)))
               /\ Bare(f[6]) = Bare(join(SubSeq(parts, a, b - 1)))
               /\ Bare(f[7]) = Bare(join(SubSeq(parts, b, r - 1)))
          /\ f[8] = strip(parts[r])
          /\ Bare(f[9]) = Bare(join(SubSeq(parts, r + 1, Len(parts))))

=============================================================================
